---- MODULE Spec2Model ----
(***************************************************************************)
(* Model of the Text-to-SQL safety pipeline:                               *)
(*   t2s/sql/safety.py          candidate extraction, validation, LIMIT    *)
(*   t2s/security/rate_limit.py sliding-window rate limiter                *)
(*   ui/app.py                  the request handler (query execution block)*)
(*                                                                         *)
(* Text is modelled as a sequence of lexemes: maximal words ("SELECT",     *)
(* "T"), numerals ("5"), single whitespace characters (" ", "\n") and      *)
(* punctuation (";", "(", "'", ...); the Markdown code fence (three      *)
(* backquotes) is the single lexeme Fence.  Two word-or-numeral lexemes   *)
(* are never adjacent, so a regular expression's \b falls exactly on a     *)
(* lexeme boundary, \s matches one whitespace lexeme and \d+ matches one   *)
(* numeral lexeme.                                                         *)
(***************************************************************************)
EXTENDS Integers, Sequences, FiniteSets, TLC

VARIABLES
    \* ---- validator (safety.py) as a state machine over one input
    sqlIn,          \* the text handed to validate_and_rewrite_select
    defaultLimit,   \* its default_limit argument
    bareLimitOk,    \* whether the SQL parser accepts a LIMIT with no operand
    vpc,            \* "start" | "validated" | "revalidated"
    res1,           \* outcome of validate_and_rewrite_select(sqlIn)
    res2            \* outcome of validate_and_rewrite_select(res1.sql)

VARIABLES
    \* ---- rate limiter (rate_limit.py)
    hits,           \* _HITS: client key -> list of admission timestamps
    lockHolder,     \* _LOCK: the thread inside "with _LOCK", 0 when free
    clock,          \* the value time.time() returns now
    maxRequests,    \* SETTINGS.rate_limit_max_requests
    windowSec,      \* SETTINGS.rate_limit_window_sec
    tpc,            \* per thread: "idle" | "lock" | "body"
    tkey,           \* per thread: the key argument of its call
    tnow,           \* per thread: its local variable now
    ret,            \* the call that returned last: its arguments, its result and,
                    \* for the record, the stored list it found and its place in run
    ncalls,         \* number of calls started
    run             \* per key, the calls completed since its state was empty: how
                    \* many, the least and greatest now among them, and whether
                    \* the latest of them was denied

VARIABLES
    \* ---- one request at a time through ui/app.py (or service.text_to_sql)
    rpc,            \* where the request handler is
    entry,          \* "ui" (app.py) | "service" (service.text_to_sql)
    tooLong,        \* len(q) > SETTINGS.max_input_chars
    stream_only,    \* the UI's stream-mode toggle
    stream,         \* chunks the backend's stream has still to yield
    buf,            \* app.py's buf
    raw_sql, cleaned_sql, safe_sql, limit_added, row_count, error_msg,
    audit,          \* the rows log_event has inserted for the current request
    nreq,           \* requests started
    nlog,           \* log_event calls made by the current request
    execd,          \* the SQL texts the current request has passed to run_query
    trace,          \* the calls the current request has made, in order
    rows,           \* what run_query returned to the current request
    vres            \* what validate_and_rewrite_select did in the current request

safetyVars == <<sqlIn, defaultLimit, bareLimitOk, vpc, res1, res2>>
rateVars == <<hits, lockHolder, clock, maxRequests, windowSec, tpc, tkey, tnow, ret,
              ncalls, run>>
reqVars == <<rpc, entry, tooLong, stream_only, stream, buf, raw_sql, cleaned_sql,
             safe_sql, limit_added, row_count, error_msg, audit, nreq, nlog, execd, vres,
             trace, rows>>
vars == <<safetyVars, rateVars, reqVars>>

(***************************************************************************)
(* Lexeme classes                                                          *)
(***************************************************************************)
WS == {" ", "\n"}
Numerals == {"1", "2", "5", "10", "50", "80", "100"}
Keywords == {"SELECT", "FROM", "WHERE", "WITH", "AS", "UNION", "LIMIT", "OFFSET",
             "DELETE", "INSERT", "INTO", "UPDATE", "SET", "DROP", "TABLE",
             "ALTER", "ADD", "CREATE", "AND"}
\* the Markdown code-fence marker: three backquote characters
Fence == "<fence>"

IsSpace(c) == c \in WS
IsDigits(c) == c \in Numerals

\* re.IGNORECASE: case folding of the lexemes that occur in lower case
Upper(c) ==
    CASE c = "select" -> "SELECT"
      [] c = "from"   -> "FROM"
      [] c = "with"   -> "WITH"
      [] c = "limit"  -> "LIMIT"
      [] c = "offset" -> "OFFSET"
      [] c = "sql"    -> "SQL"
      [] c = "query"  -> "QUERY"
      [] c = "Query"  -> "QUERY"
      [] OTHER        -> c

Last(t) == t[Len(t)]
Front(t) == SubSeq(t, 1, Len(t) - 1)

\* str.strip()
RECURSIVE LStrip(_)
LStrip(t) == IF t # <<>> /\ IsSpace(Head(t)) THEN LStrip(Tail(t)) ELSE t

RECURSIVE RStrip(_)
RStrip(t) == IF t # <<>> /\ IsSpace(Last(t)) THEN RStrip(Front(t)) ELSE t

Strip(t) == RStrip(LStrip(t))

\* index of the last non-whitespace lexeme at or before i (0 when there is none)
RECURSIVE SkipWsBack(_, _)
SkipWsBack(t, i) ==
    IF i >= 1 /\ IsSpace(t[i]) THEN SkipWsBack(t, i - 1) ELSE i

\* index of the first non-whitespace lexeme at or after i (Len(t)+1 when none)
RECURSIVE SkipWsFwd(_, _)
SkipWsFwd(t, i) ==
    IF i <= Len(t) /\ IsSpace(t[i]) THEN SkipWsFwd(t, i + 1) ELSE i

\* str.find / re.search for a one-lexeme needle out of a set (compared case
\* folded): first index, 0 when absent
FirstIndex(t, needles) ==
    IF \E i \in 1..Len(t) : Upper(t[i]) \in needles
    THEN CHOOSE i \in 1..Len(t) :
            Upper(t[i]) \in needles /\ \A j \in 1..(i - 1) : Upper(t[j]) \notin needles
    ELSE 0

Semicolon == {";"}
SelectOrWith == {"SELECT", "WITH"}
Quote == {"'"}

(***************************************************************************)
(* extract_sql_candidate                                                   *)
(***************************************************************************)
\* re.sub(r"^<fence>(?:sql)?\s*", "", t, flags=re.IGNORECASE)
StripOpenFence(t) ==
    LET a == Tail(t)
        b == IF a # <<>> /\ Upper(Head(a)) = "SQL" THEN Tail(a) ELSE a
    IN  LStrip(b)

\* re.sub(r"\s*<fence>\s*$", "", t)
StripCloseFence(t) ==
    LET v == RStrip(t)
    IN  IF v # <<>> /\ Last(v) = Fence THEN RStrip(Front(v)) ELSE t

\* re.sub(r"^(sql\s*:|query\s*:)", "", t, flags=re.IGNORECASE)
StripLabel(t) ==
    IF t # <<>> /\ Upper(Head(t)) \in {"SQL", "QUERY"}
    THEN LET k == SkipWsFwd(t, 2)
         IN  IF k <= Len(t) /\ t[k] = ":" THEN SubSeq(t, k + 1, Len(t)) ELSE t
    ELSE t

\* m = re.search(r"\b(SELECT|WITH)\b", t); if m and m.start() > 0: t = t[m.start():].strip()
JumpToQuery(t) ==
    LET m == FirstIndex(t, SelectOrWith)
    IN  IF m > 1 THEN Strip(SubSeq(t, m, Len(t))) ELSE t

\* semi = t.find(";"); if semi != -1: t = t[: semi + 1].strip()
KeepFirstStatement(t) ==
    LET semi == FirstIndex(t, Semicolon)
    IN  IF semi # 0 THEN Strip(SubSeq(t, 1, semi)) ELSE t

extract_sql_candidate(text) ==
    IF text = <<>> THEN <<>>
    ELSE LET t0 == Strip(text)
             t1 == IF t0 # <<>> /\ Head(t0) = Fence
                   THEN Strip(StripCloseFence(StripOpenFence(t0)))
                   ELSE t0
             t2 == Strip(StripLabel(t1))
             t3 == JumpToQuery(t2)
         IN  KeepFirstStatement(t3)

(***************************************************************************)
(* sqlglot.parse(candidate, read=dialect), as far as the validator relies  *)
(* on it: tokenise (whitespace dropped, a quoted string is one token, an   *)
(* unterminated string is an error), split the tokens into statements at   *)
(* semicolons, and parse each statement of a small SQL grammar:            *)
(*   query  ::= core {UNION core} [LIMIT [num] [OFFSET num]]               *)
(*   core   ::= SELECT item [FROM source] [WHERE cond]                     *)
(*   cond   ::= ident (=|>) value [AND cond]                               *)
(*   source ::= ident | ( query ) [ident]                                  *)
(*   stmt   ::= query | WITH ident AS ( query ) query                      *)
(*            | DELETE FROM ident [WHERE ..] | INSERT INTO ident query     *)
(*            | UPDATE ident SET ident = value | DROP TABLE ident          *)
(*            | ALTER TABLE ident ADD ident | CREATE TABLE ident AS query  *)
(* A LIMIT with no operand is accepted only when bare is TRUE.             *)
(***************************************************************************)
IsQuote(c) == c \in Quote
StrTok == "<str>"
Eof == "<eof>"

RECURSIVE Tokenize(_, _, _)
Tokenize(t, i, acc) ==
    IF i > Len(t) THEN [ok |-> TRUE, toks |-> acc]
    ELSE IF IsSpace(t[i]) THEN Tokenize(t, i + 1, acc)
    ELSE IF IsQuote(t[i])
         THEN LET q == FirstIndex(SubSeq(t, i + 1, Len(t)), Quote)
              IN  IF q = 0 THEN [ok |-> FALSE, toks |-> acc]
                  ELSE Tokenize(t, i + q + 1, Append(acc, StrTok))
    ELSE Tokenize(t, i + 1, Append(acc, Upper(t[i])))

\* Parser._parse: a semicolon opens a new chunk unless it is the last token
RECURSIVE Chunks(_, _, _)
Chunks(toks, i, acc) ==
    IF i > Len(toks) THEN acc
    ELSE IF toks[i] = ";"
         THEN Chunks(toks, i + 1, IF i < Len(toks) THEN Append(acc, <<>>) ELSE acc)
    ELSE Chunks(toks, i + 1, [acc EXCEPT ![Len(acc)] = Append(@, toks[i])])

At(tk, i) == IF i >= 1 /\ i <= Len(tk) THEN tk[i] ELSE Eof
IsIdent(c) ==
    c \notin Keywords \cup Numerals
              \cup {StrTok, Eof, ";", "(", ")", "*", ":", "=", ">", Fence}
IsValue(c) == c = StrTok \/ IsDigits(c)

\* each Parse* returns the index after what it parsed, 0 when it fails
ParseItem(tk, i) ==
    IF At(tk, i) = "*" \/ IsValue(At(tk, i)) \/ IsIdent(At(tk, i)) THEN i + 1 ELSE 0

RECURSIVE ParseCond(_, _)
ParseCond(tk, i) ==
    IF IsIdent(At(tk, i)) /\ At(tk, i + 1) \in {"=", ">"} /\ IsValue(At(tk, i + 2))
    THEN IF At(tk, i + 3) = "AND" THEN ParseCond(tk, i + 4) ELSE i + 3
    ELSE 0

ParseLimit(tk, i, bare) ==
    IF i = 0 THEN 0
    ELSE IF At(tk, i) # "LIMIT" THEN i
    ELSE IF IsDigits(At(tk, i + 1))
         THEN IF At(tk, i + 2) # "OFFSET" THEN i + 2
              ELSE IF IsDigits(At(tk, i + 3)) THEN i + 4 ELSE 0
    ELSE IF bare THEN i + 1 ELSE 0

RECURSIVE ParseQuery(_, _, _)
\* after a parenthesised query that ended before j: the ")" and an optional alias
ParseSourceTail(tk, j) ==
    IF j # 0 /\ At(tk, j) = ")"
    THEN IF IsIdent(At(tk, j + 1)) THEN j + 2 ELSE j + 1
    ELSE 0

ParseSource(tk, i, bare) ==
    IF IsIdent(At(tk, i)) THEN i + 1
    ELSE IF At(tk, i) = "(" THEN ParseSourceTail(tk, ParseQuery(tk, i + 1, bare))
    ELSE 0

ParseFrom(tk, j, bare) ==
    IF j # 0 /\ At(tk, j) = "FROM" THEN ParseSource(tk, j + 1, bare) ELSE j

ParseWhere(tk, k) ==
    IF k # 0 /\ At(tk, k) = "WHERE" THEN ParseCond(tk, k + 1) ELSE k

ParseCore(tk, i, bare) ==
    IF At(tk, i) # "SELECT" THEN 0
    ELSE ParseWhere(tk, ParseFrom(tk, ParseItem(tk, i + 1), bare))

RECURSIVE ParseSetOps(_, _, _)
ParseUnion(tk, j, bare) ==
    IF j # 0 /\ At(tk, j) = "UNION" THEN ParseSetOps(tk, j + 1, bare) ELSE j

ParseSetOps(tk, i, bare) == ParseUnion(tk, ParseCore(tk, i, bare), bare)

ParseQuery(tk, i, bare) == ParseLimit(tk, ParseSetOps(tk, i, bare), bare)

\* whether the query starting at i is a set operation at its own nesting level
RECURSIVE HasUnionAt(_, _, _)
HasUnionAt(tk, i, depth) ==
    IF i > Len(tk) THEN FALSE
    ELSE IF tk[i] = "(" THEN HasUnionAt(tk, i + 1, depth + 1)
    ELSE IF tk[i] = ")" THEN HasUnionAt(tk, i + 1, depth - 1)
    ELSE IF tk[i] = "UNION" /\ depth = 0 THEN TRUE
    ELSE HasUnionAt(tk, i + 1, depth)

Tree(kind) == [kind |-> kind]
NoTree == Tree("none")
BadTree == Tree("error")
Whole(tk, j, kind) == IF j = Len(tk) + 1 THEN Tree(kind) ELSE BadTree
QueryKind(tk, i) == IF HasUnionAt(tk, i, 0) THEN "union" ELSE "select"

\* WITH ident AS ( query ending before j: the ")" and the main query
ParseWithBody(tk, j, bare) ==
    IF j # 0 /\ At(tk, j) = ")"
    THEN Whole(tk, ParseQuery(tk, j + 1, bare), QueryKind(tk, j + 1))
    ELSE BadTree

ParseStatement(tk, bare) ==
    LET h == At(tk, 1)
    IN  IF tk = <<>> THEN NoTree
        ELSE IF h = "SELECT" THEN Whole(tk, ParseQuery(tk, 1, bare), QueryKind(tk, 1))
        ELSE IF h = "WITH"
             THEN IF IsIdent(At(tk, 2)) /\ At(tk, 3) = "AS" /\ At(tk, 4) = "("
                  THEN ParseWithBody(tk, ParseQuery(tk, 5, bare), bare)
                  ELSE BadTree
        ELSE IF h = "DELETE"
             THEN IF At(tk, 2) = "FROM" /\ IsIdent(At(tk, 3))
                  THEN Whole(tk, IF At(tk, 4) = "WHERE" THEN ParseCond(tk, 5) ELSE 4, "delete")
                  ELSE BadTree
        ELSE IF h = "INSERT"
             THEN IF At(tk, 2) = "INTO" /\ IsIdent(At(tk, 3))
                  THEN Whole(tk, ParseQuery(tk, 4, bare), "insert")
                  ELSE BadTree
        ELSE IF h = "UPDATE"
             THEN IF IsIdent(At(tk, 2)) /\ At(tk, 3) = "SET"
                  THEN Whole(tk, ParseCond(tk, 4), "update")
                  ELSE BadTree
        ELSE IF h = "DROP"
             THEN IF At(tk, 2) = "TABLE" /\ IsIdent(At(tk, 3))
                  THEN Whole(tk, 4, "drop") ELSE BadTree
        ELSE IF h = "ALTER"
             THEN IF At(tk, 2) = "TABLE" /\ IsIdent(At(tk, 3)) /\ At(tk, 4) = "ADD"
                     /\ IsIdent(At(tk, 5))
                  THEN Whole(tk, 6, "alter") ELSE BadTree
        ELSE IF h = "CREATE"
             THEN IF At(tk, 2) = "TABLE" /\ IsIdent(At(tk, 3)) /\ At(tk, 4) = "AS"
                  THEN Whole(tk, ParseQuery(tk, 5, bare), "create")
                  ELSE BadTree
        ELSE BadTree

\* the trees of the chunks
ParseChunks(ch, bare) == [n \in 1..Len(ch) |-> ParseStatement(ch[n], bare)]

\* sqlglot.parse: the list of statement trees; raised when the tokenizer or a
\* statement's parse fails
ParseResult(ok, trees) ==
    IF ~ok \/ \E n \in 1..Len(trees) : trees[n] = BadTree
    THEN [raised |-> TRUE, statements |-> <<>>]
    ELSE [raised |-> FALSE, statements |-> trees]

ParseTokens(tz, bare) ==
    ParseResult(tz.ok, ParseChunks(Chunks(tz.toks, 1, << <<>> >>), bare))

Parse(text, bare) == ParseTokens(Tokenize(text, 1, <<>>), bare)

(***************************************************************************)
(* safety.py: classification and LIMIT enforcement                         *)
(***************************************************************************)
_is_select_statement(tree) ==
    tree.kind \in {"select", "with_select", "with_union", "union", "intersect", "except"}

\* re.sub(r";+\s*$", "", sql.strip())
RECURSIVE DropSemis(_)
DropSemis(t) == IF t # <<>> /\ Last(t) = ";" THEN DropSemis(Front(t)) ELSE t

\* mutant of _strip_trailing_semicolons: only the whitespace is stripped
_strip_trailing_semicolons_kept(sql) == Strip(sql)

_strip_trailing_semicolons(sql) ==
    LET u == Strip(sql)
        v == RStrip(u)
    IN  IF v # <<>> /\ Last(v) = ";" THEN DropSemis(v) ELSE u

\* the lexemes ending at e match  \bLIMIT\b\s+\d+
LimitNumEndsAt(t, e) ==
    /\ e >= 3
    /\ IsDigits(t[e])
    /\ IsSpace(t[e - 1])
    /\ LET k == SkipWsBack(t, e - 1) IN k >= 1 /\ Upper(t[k]) = "LIMIT"

\* re.search(r"\bLIMIT\b\s+\d+\s*(?:\bOFFSET\b\s+\d+\s*)?$", sql_no_sc, re.IGNORECASE)
_has_top_level_limit(sql_no_sc) ==
    LET t == sql_no_sc
        e == SkipWsBack(t, Len(t))
        k == IF e >= 3 THEN SkipWsBack(t, e - 1) ELSE 0
    IN  \/ LimitNumEndsAt(t, e)
        \/ /\ e >= 3 /\ IsDigits(t[e]) /\ IsSpace(t[e - 1])
           /\ k >= 2 /\ Upper(t[k]) = "OFFSET" /\ IsSpace(t[k - 1])
           /\ LimitNumEndsAt(t, SkipWsBack(t, k - 1))

\* re.search(r"\bLIMIT\b\s+\d+", s, flags=re.IGNORECASE)
ContainsLimitNumber(s) ==
    \E i \in 1..Len(s) :
        /\ Upper(s[i]) = "LIMIT"
        /\ i + 1 <= Len(s) /\ IsSpace(s[i + 1])
        /\ LET n == SkipWsFwd(s, i + 1) IN n <= Len(s) /\ IsDigits(s[n])

\* re.search(r"\bLIMIT\b\s*$", s, flags=re.IGNORECASE)
EndsWithBareLimit(s) ==
    LET e == SkipWsBack(s, Len(s)) IN e >= 1 /\ Upper(s[e]) = "LIMIT"

\* str(default_limit) inside the f-strings
DefaultLimits == {50, 100}
NumeralOf(n) == CASE n = 50 -> "50" [] n = 100 -> "100"

\* re.sub(r"\bLIMIT\b\s*$", f"LIMIT {default_limit}", s, flags=re.IGNORECASE)
RepairBareLimit(s, default_limit) ==
    LET e == SkipWsBack(s, Len(s))
    IN  SubSeq(s, 1, e - 1) \o <<"LIMIT", " ", NumeralOf(default_limit)>>

\* mutant of MustAppendLimit: a LIMIT is appended whatever the statement holds
MustAppendLimit_always(s) == TRUE

\* line 100: the condition under which a LIMIT is appended
MustAppendLimit(s) == ~_has_top_level_limit(s) /\ ~ContainsLimitNumber(s)

\* f"{s} LIMIT {default_limit}"
AppendLimit(s, default_limit) == s \o <<" ", "LIMIT", " ", NumeralOf(default_limit)>>

Raised(msg) == [ok |-> FALSE, err |-> msg, sql |-> <<>>, limit_added |-> FALSE]
SafeSQLResult(sql, added) ==
    [ok |-> TRUE, err |-> "", sql |-> sql, limit_added |-> added]

\* lines 90-108, for a candidate that passed the checks
RewriteLimit(candidate, default_limit) ==
    LET s0 == _strip_trailing_semicolons(candidate)
        repair == EndsWithBareLimit(s0)
        s1 == IF repair THEN RepairBareLimit(s0, default_limit) ELSE s0
        append == MustAppendLimit(s1)
        s2 == IF append THEN AppendLimit(s1, default_limit) ELSE s1
        s3 == Strip(s2)
        safe == IF s3 # <<>> /\ Last(s3) = ";" THEN s3 ELSE Append(s3, ";")
    IN  SafeSQLResult(safe, repair \/ append)

\* lines 71-108, given the candidate and what sqlglot.parse made of it
ValidateParsed(candidate, parsed, default_limit) ==
    IF candidate = <<>> THEN Raised("Empty SQL produced by provider.")
    ELSE IF parsed.raised THEN Raised("SQL parse error")
    ELSE IF Len(parsed.statements) # 1
         THEN Raised("Only a single SQL statement is allowed.")
    ELSE IF parsed.statements[1] = NoTree
         THEN Raised("SQL parse produced no statement.")
    ELSE IF ~_is_select_statement(parsed.statements[1])
         THEN Raised("Only SELECT queries are allowed.")
    ELSE RewriteLimit(candidate, default_limit)

ValidateCandidate(candidate, default_limit, bare) ==
    ValidateParsed(candidate, Parse(candidate, bare), default_limit)

validate_and_rewrite_select(sql, default_limit, bare) ==
    ValidateCandidate(extract_sql_candidate(sql), default_limit, bare)

NoResult == [ok |-> FALSE, err |-> "-", sql |-> <<>>, limit_added |-> FALSE]

\* row_count = None
NullCount == -1
\* error = None
NoError == "None"

\* the request handler's variables before a request
ReqIdle ==
    /\ rpc = "idle"
    /\ entry = "ui"
    /\ tooLong = FALSE
    /\ stream_only = FALSE
    /\ stream = <<>>
    /\ buf = <<>>
    /\ raw_sql = <<>>
    /\ cleaned_sql = <<>>
    /\ safe_sql = <<>>
    /\ limit_added = FALSE
    /\ row_count = NullCount
    /\ error_msg = NoError
    /\ audit = <<>>
    /\ nreq = 0
    /\ nlog = 0
    /\ execd = <<>>
    /\ vres = NoResult
    /\ trace = <<>>
    /\ rows = <<>>

\* the validator's variables while no validation is modelled
SafetyIdle ==
    /\ sqlIn = <<>>
    /\ defaultLimit = 100
    /\ vpc = "off"
    /\ res1 = NoResult
    /\ res2 = NoResult

(***************************************************************************)
(* rate_limit.py: check_rate_limit and reset_rate_limits                   *)
(***************************************************************************)
MaxTime == 2        \* the clock runs over 0..MaxTime
MaxCalls == 4       \* calls of check_rate_limit started in one behaviour
MaxN == 2           \* max_requests tried: 1..MaxN (and the degenerate ones)
MaxW == 2           \* window_sec tried: 1..MaxW (and the degenerate ones)

Threads == {1, 2}
Keys == {"k1", "k2"}
Configs == ((1..MaxN) \X (1..MaxW)) \cup {<<0, 1>>, <<1, 0>>, <<-1, 1>>}

\* mutant of Prune: expired timestamps are never dropped
Prune_keepAll(h, cutoff) == h

\* mutant of Prune: timestamps up to one second older than the cutoff are kept
Prune_lenient(h, cutoff) == SelectSeq(h, LAMBDA x : x >= cutoff - 1)

\* [t for t in hits if t >= cutoff]
RECURSIVE Prune(_, _)
Prune(h, cutoff) ==
    IF h = <<>> THEN <<>>
    ELSE IF Head(h) >= cutoff THEN <<Head(h)>> \o Prune(Tail(h), cutoff)
    ELSE Prune(Tail(h), cutoff)

Max0(x) == IF x > 0 THEN x ELSE 0

\* mutant of CheckBody: a denied call records its timestamp too
CheckBody_denyRecords(stored, now, max_requests, window_sec) ==
    LET cutoff == now - window_sec
        pruned == Prune(stored, cutoff)
    IN  IF Len(pruned) >= max_requests
        THEN [allowed |-> FALSE,
              retry_after |-> Max0(window_sec - (now - pruned[1])),
              hits |-> Append(pruned, now)]
        ELSE [allowed |-> TRUE, retry_after |-> 0, hits |-> Append(pruned, now)]

\* mutant of CheckBody: the limit is compared with > instead of >=
CheckBody_offByOne(stored, now, max_requests, window_sec) ==
    LET cutoff == now - window_sec
        pruned == Prune(stored, cutoff)
    IN  IF Len(pruned) > max_requests
        THEN [allowed |-> FALSE,
              retry_after |-> Max0(window_sec - (now - pruned[1])),
              hits |-> pruned]
        ELSE [allowed |-> TRUE, retry_after |-> 0, hits |-> Append(pruned, now)]

\* lines 21-32: the body of "with _LOCK", on the key's stored list
CheckBody(stored, now, max_requests, window_sec) ==
    LET cutoff == now - window_sec
        pruned == Prune(stored, cutoff)
    IN  IF Len(pruned) >= max_requests
        THEN [allowed |-> FALSE,
              retry_after |-> Max0(window_sec - (now - pruned[1])),
              hits |-> pruned]
        ELSE [allowed |-> TRUE, retry_after |-> 0, hits |-> Append(pruned, now)]

\* line 16: if max_requests <= 0 or window_sec <= 0
IsDegenerate(max_requests, window_sec) == max_requests <= 0 \/ window_sec <= 0
Degenerate == IsDegenerate(maxRequests, windowSec)

\* what has been recorded of the calls made for a key since its state was empty:
\* their number, the span of their clock readings, whether the last one was
\* denied, and how many calls were admitted with each clock reading
NoRun == [n |-> 0, lo |-> 0, hi |-> 0, denied |-> FALSE, adm |-> [x \in 0..MaxTime |-> 0]]
NoReturn ==
    [key |-> "-", now |-> 0, allowed |-> TRUE, retry_after |-> -1, before |-> <<>>,
     nth |-> 0, lo |-> 0, hi |-> 0, after_denial |-> FALSE]

Min2(a, b) == IF a < b THEN a ELSE b
Max2(a, b) == IF a > b THEN a ELSE b

RateIdle ==
    /\ hits = [k \in Keys |-> <<>>]
    /\ lockHolder = 0
    /\ clock = 0
    /\ maxRequests = 15
    /\ windowSec = 60
    /\ tpc = [t \in Threads |-> "idle"]
    /\ tkey = [t \in Threads |-> "k1"]
    /\ tnow = [t \in Threads |-> 0]
    /\ ret = NoReturn
    /\ ncalls = 0
    /\ run = [k \in Keys |-> NoRun]

InitRate ==
    /\ SafetyIdle
    /\ bareLimitOk = FALSE
    /\ ReqIdle
    /\ hits = [k \in Keys |-> <<>>]
    /\ lockHolder = 0
    /\ clock = 0
    /\ \E c \in Configs : maxRequests = c[1] /\ windowSec = c[2]
    /\ tpc = [t \in Threads |-> "idle"]
    /\ tkey = [t \in Threads |-> "k1"]
    /\ tnow = [t \in Threads |-> 0]
    /\ ret = NoReturn
    /\ ncalls = 0
    /\ run = [k \in Keys |-> NoRun]

\* mutant of EarlyReturn: the early return forgets the key's history
EarlyReturn_clears(t, k, c) ==
    /\ tpc[t] = "idle"
    /\ ncalls < MaxCalls
    /\ IsDegenerate(c[1], c[2])
    /\ hits' = [hits EXCEPT ![k] = <<>>]
    /\ ret' = [NoReturn EXCEPT !.key = k, !.retry_after = 0, !.before = hits[k]]
    /\ ncalls' = ncalls + 1
    /\ UNCHANGED <<lockHolder, clock, maxRequests, windowSec, tpc, tkey, tnow,
                   run, safetyVars, reqVars>>

\* lines 16-17: a call whose arguments c = (max_requests, window_sec) are
\* degenerate returns at once, whatever the key's history
EarlyReturn(t, k, c) ==
    /\ tpc[t] = "idle"
    /\ ncalls < MaxCalls
    /\ IsDegenerate(c[1], c[2])
    /\ ret' = [NoReturn EXCEPT !.key = k, !.retry_after = 0, !.before = hits[k]]
    /\ ncalls' = ncalls + 1
    /\ UNCHANGED <<hits, lockHolder, clock, maxRequests, windowSec, tpc, tkey, tnow,
                   run, safetyVars, reqVars>>

\* line 19: now = time.time(), read before the lock is taken
ReadClock(t, k) ==
    /\ tpc[t] = "idle"
    /\ ncalls < MaxCalls
    /\ ~Degenerate
    /\ tnow' = [tnow EXCEPT ![t] = clock]
    /\ tkey' = [tkey EXCEPT ![t] = k]
    /\ tpc' = [tpc EXCEPT ![t] = "lock"]
    /\ ncalls' = ncalls + 1
    /\ UNCHANGED <<hits, lockHolder, clock, maxRequests, windowSec, ret, run,
                   safetyVars, reqVars>>

\* line 20: with _LOCK
Acquire(t) ==
    /\ tpc[t] = "lock"
    /\ lockHolder = 0
    /\ lockHolder' = t
    /\ tpc' = [tpc EXCEPT ![t] = "body"]
    /\ UNCHANGED <<hits, clock, maxRequests, windowSec, tkey, tnow, ret, ncalls, run,
                   safetyVars, reqVars>>

\* lines 21-32, and the lock's release on leaving the with block
Body(t) ==
    /\ tpc[t] = "body"
    /\ lockHolder = t
    /\ LET k == tkey[t]
           r == CheckBody(hits[k], tnow[t], maxRequests, windowSec)
           lo == IF run[k].n = 0 THEN tnow[t] ELSE Min2(run[k].lo, tnow[t])
           hi == IF run[k].n = 0 THEN tnow[t] ELSE Max2(run[k].hi, tnow[t])
       IN  /\ hits' = [hits EXCEPT ![k] = r.hits]
           /\ ret' = [key |-> k, now |-> tnow[t], allowed |-> r.allowed,
                      retry_after |-> r.retry_after, before |-> hits[k],
                      nth |-> run[k].n + 1, lo |-> lo, hi |-> hi,
                      after_denial |-> run[k].denied]
           /\ run' = [run EXCEPT ![k] =
                         [n |-> run[k].n + 1, lo |-> lo, hi |-> hi, denied |-> ~r.allowed,
                          adm |-> IF r.allowed
                                  THEN [run[k].adm EXCEPT ![tnow[t]] = @ + 1]
                                  ELSE run[k].adm]]
    /\ lockHolder' = 0
    /\ tpc' = [tpc EXCEPT ![t] = "idle"]
    /\ tkey' = [tkey EXCEPT ![t] = "k1"]      \* the call's locals go out of scope
    /\ tnow' = [tnow EXCEPT ![t] = 0]
    /\ UNCHANGED <<clock, maxRequests, windowSec, ncalls, safetyVars, reqVars>>

\* reset_rate_limits
ResetRateLimits ==
    /\ lockHolder = 0
    /\ \E k \in Keys : hits[k] # <<>>
    /\ hits' = [k \in Keys |-> <<>>]
    /\ run' = [k \in Keys |-> NoRun]
    /\ UNCHANGED <<lockHolder, clock, maxRequests, windowSec, tpc, tkey, tnow, ret,
                   ncalls, safetyVars, reqVars>>

\* time passes
Tick ==
    /\ clock < MaxTime
    /\ clock' = clock + 1
    /\ UNCHANGED <<hits, lockHolder, maxRequests, windowSec, tpc, tkey, tnow, ret,
                   ncalls, run, safetyVars, reqVars>>

NextRate ==
    \/ \E t \in Threads, k \in Keys, c \in Configs : EarlyReturn(t, k, c)
    \/ \E t \in Threads, k \in Keys : ReadClock(t, k)
    \/ \E t \in Threads : Acquire(t)
    \/ \E t \in Threads : Body(t)
    \/ ResetRateLimits
    \/ Tick

SpecRate == InitRate /\ [][NextRate]_vars

(***************************************************************************)
(* Inputs of the validator: what a generation backend may return           *)
(***************************************************************************)
MaxSemis == 2       \* trailing semicolons tried: 0..MaxSemis
MaxPad == 1         \* whitespace lexemes of padding tried: 1..MaxPad

\* words separated by single blanks
RECURSIVE Words(_)
Words(w) ==
    IF Len(w) <= 1 THEN w ELSE <<Head(w), " ">> \o Words(Tail(w))

RECURSIVE Rep(_, _)
Rep(c, n) == IF n <= 0 THEN <<>> ELSE <<c>> \o Rep(c, n - 1)

ReadBodies ==
    { <<"SELECT", "*", "FROM", "T">>,
      <<"SELECT", "1">>,
      <<"select", "*", "from", "T">>,
      <<"SELECT", "*", "FROM", "T", "WHERE", "X", "=", "1">>,
      <<"SELECT", "*", "FROM", "(", "SELECT", "*", "FROM", "T", "LIMIT", "5", ")", "X">>,
      <<"SELECT", "'", "a", ";", "b", "'", "FROM", "T">>,
      <<"SELECT", "'", "LIMIT", "5", "'", "FROM", "T">>,
      <<"WITH", "C", "AS", "(", "SELECT", "*", "FROM", "T", ")", "SELECT", "*", "FROM", "C">>,
      <<"SELECT", "1", "UNION", "SELECT", "2">> }

WriteBodies ==
    { <<"DELETE", "FROM", "T">>,
      <<"DROP", "TABLE", "T">>,
      <<"UPDATE", "T", "SET", "X", "=", "1">>,
      <<"ALTER", "TABLE", "T", "ADD", "X">>,
      <<"INSERT", "INTO", "T", "SELECT", "*", "FROM", "T">>,
      <<"CREATE", "TABLE", "X", "AS", "SELECT", "*", "FROM", "T">> }

LimitTails ==
    { <<>>,
      <<"LIMIT", "5">>,
      <<"limit", "10">>,
      <<"LIMIT", "5", "OFFSET", "10">>,
      <<"LIMIT">> }

Terminators ==
    { Rep(";", k) : k \in 0..MaxSemis }
      \cup { <<" ">> \o Rep(";", k) : k \in 1..MaxSemis }
      \cup { <<";", " ">> \o Words(<<"DROP", "TABLE", "T">>),
             <<";", " ">> \o Words(<<"SELECT", "2">>) }

Statements ==
    { Words(b \o t) \o e : b \in ReadBodies \cup WriteBodies, t \in LimitTails, e \in Terminators }

\* the decorations extract_sql_candidate is written for, around a few statements
DecoratedCore ==
    { Words(<<"SELECT", "*", "FROM", "T">>),
      Words(<<"SELECT", "*", "FROM", "T", "LIMIT", "5">>) \o <<";">>,
      Words(<<"DELETE", "FROM", "T">>) }

Decorated ==
    UNION { { Rep(" ", n) \o c \o Rep("\n", n) : n \in 1..MaxPad }
              \cup { <<Fence, "sql", "\n">> \o c \o <<"\n", Fence>>,
                     <<Fence, "\n">> \o c \o <<"\n", Fence, "\n">>,
                     <<"SQL", ":", " ">> \o c,
                     <<"query", " ", ":", " ">> \o c,
                     Words(<<"Here", "is", "the", "Query">>) \o <<":", "\n">> \o c }
            : c \in DecoratedCore }

Inputs == Statements \cup Decorated \cup { <<>>, <<" ">>, <<";">>, <<"Hello">> }

(***************************************************************************)
(* The validator as a state machine: one call, then a second call on the   *)
(* first call's output                                                     *)
(***************************************************************************)
InitSafety ==
    /\ RateIdle
    /\ ReqIdle
    /\ sqlIn \in Inputs
    /\ defaultLimit \in DefaultLimits
    /\ bareLimitOk \in BOOLEAN
    /\ vpc = "start"
    /\ res1 = NoResult
    /\ res2 = NoResult

Validate ==
    /\ vpc = "start"
    /\ res1' = validate_and_rewrite_select(sqlIn, defaultLimit, bareLimitOk)
    /\ vpc' = "validated"
    /\ UNCHANGED <<sqlIn, defaultLimit, bareLimitOk, res2, rateVars, reqVars>>

Revalidate ==
    /\ vpc = "validated"
    /\ res1.ok
    /\ res2' = validate_and_rewrite_select(res1.sql, defaultLimit, bareLimitOk)
    /\ vpc' = "revalidated"
    /\ UNCHANGED <<sqlIn, defaultLimit, bareLimitOk, res1, rateVars, reqVars>>

NextSafety == Validate \/ Revalidate

SpecSafety == InitSafety /\ [][NextSafety]_vars

(***************************************************************************)
(* ui/app.py: the query execution block (lines 616-813), one request at a  *)
(* time, and service.text_to_sql                                           *)
(***************************************************************************)
MaxReq == 2         \* requests handled in one behaviour
MaxChunks == 2      \* a backend stream yields 1..MaxChunks chunks

\* the backend's answer in the scenario of the class 10 students
ScenarioA ==
    Words(<<"SELECT", "*", "FROM", "STUDENT", "WHERE", "CLASS", "=">>)
        \o <<" ", "'", "10", "'", " ">> \o Words(<<"AND", "MARKS", ">", "80">>)

\* what provider.generate_sql may return
GenTexts ==
    { Words(<<"SELECT", "*", "FROM", "T">>),
      Words(<<"SELECT", "*", "FROM", "T", "LIMIT", "5">>) \o <<";">>,
      Words(<<"SELECT", "*", "FROM", "T", "LIMIT">>),
      Words(<<"SELECT", "1">>) \o <<";", " ">> \o Words(<<"DROP", "TABLE", "T">>),
      Words(<<"DELETE", "FROM", "T">>),
      Words(<<"INSERT", "INTO", "T", "SELECT", "*", "FROM", "T">>),
      <<Fence, "sql", "\n">> \o Words(<<"SELECT", "*", "FROM", "T">>) \o <<"\n", Fence>>,
      ScenarioA,
      <<>> }

\* what run_query may find in a table whose contents are not known: len(rows)
RowCounts == {0, 2}
AnyRow == [NAME |-> "?", CLASS |-> "?", SECTION |-> "?", MARKS |-> 0]

\* seed_student_db.py: the rows of STUDENT(NAME, CLASS, SECTION, MARKS), in
\* insertion order
Seed ==
    << [NAME |-> "Rifa",   CLASS |-> "10", SECTION |-> "A", MARKS |-> 91],
       [NAME |-> "Nabil",  CLASS |-> "10", SECTION |-> "A", MARKS |-> 86],
       [NAME |-> "Tania",  CLASS |-> "9",  SECTION |-> "B", MARKS |-> 79],
       [NAME |-> "Shihab", CLASS |-> "8",  SECTION |-> "C", MARKS |-> 73],
       [NAME |-> "Mim",    CLASS |-> "10", SECTION |-> "B", MARKS |-> 88],
       [NAME |-> "Hasan",  CLASS |-> "9",  SECTION |-> "A", MARKS |-> 82] >>

\* the value of a numeral
NumOf(c) ==
    CASE c = "1" -> 1 [] c = "2" -> 2 [] c = "5" -> 5 [] c = "10" -> 10
      [] c = "50" -> 50 [] c = "80" -> 80 [] c = "100" -> 100

\* the SQL text without its whitespace, keywords case folded
SqlWords(sql) == [i \in 1..Len(SelectSeq(sql, LAMBDA c : ~IsSpace(c))) |->
                     Upper(SelectSeq(sql, LAMBDA c : ~IsSpace(c))[i])]

IsStudentQuery(tk) ==
    Len(tk) >= 4 /\ SubSeq(tk, 1, 4) = <<"SELECT", "*", "FROM", "STUDENT">>

\* SQLite's comparison of a row's column with a literal: MARKS is an INTEGER
\* column and is compared as a number, the other columns are TEXT and are
\* compared as text (only equality is modelled for them)
Holds(r, col, op, lit) ==
    IF col = "MARKS"
    THEN IF op = ">" THEN r.MARKS > NumOf(lit) ELSE r.MARKS = NumOf(lit)
    ELSE op = "=" /\ r[col] = lit

\* cursor.execute and fetchall on the seeded table: the WHERE conjuncts from
\* tk[i] on filter the rows, and LIMIT n keeps the first n of them
RECURSIVE FetchAll(_, _, _)
FetchAll(tk, i, rs) ==
    IF i > Len(tk) THEN rs
    ELSE IF tk[i] \in {"WHERE", "AND"}
         THEN LET quoted == tk[i + 3] = "'"
                  lit == IF quoted THEN tk[i + 4] ELSE tk[i + 3]
                  next == IF quoted THEN i + 6 ELSE i + 4
              IN  FetchAll(tk, next,
                           SelectSeq(rs, LAMBDA r : Holds(r, tk[i + 1], tk[i + 2], lit)))
    ELSE IF tk[i] = "LIMIT" THEN SubSeq(rs, 1, Min2(Len(rs), NumOf(tk[i + 1])))
    ELSE rs

\* runner.run_query: the rows returned for sql; n is the number of rows found
\* when the query is over a table other than the seeded one
run_query(sql, n) ==
    IF IsStudentQuery(SqlWords(sql))
    THEN FetchAll(SqlWords(sql), 5, Seed)
    ELSE [i \in 1..n |-> AnyRow]

\* a text cut into n chunks of equal length (the last one shorter)
RECURSIVE Chunked(_, _)
Chunked(t, size) ==
    IF Len(t) <= size THEN <<t>>
    ELSE <<SubSeq(t, 1, size)>> \o Chunked(SubSeq(t, size + 1, Len(t)), size)

StreamTexts ==
    { Words(<<"SELECT", "*", "FROM", "T">>),
      Words(<<"SELECT", "1">>) \o <<";", " ">> \o Words(<<"DROP", "TABLE", "T">>) }

\* what provider.generate_sql_stream may yield
StreamChoices ==
    { Chunked(t, (Len(t) + n - 1) \div n) : t \in StreamTexts, n \in 1..MaxChunks }

\* app.py _prepare_for_execute: ok = FALSE stands for the ValueError
_prepare_for_execute(sql) ==
    LET s0 == Strip(sql)
        v == RStrip(s0)
        s1 == IF v # <<>> /\ Last(v) = ";" THEN DropSemis(v) ELSE s0
    IN  [ok |-> ~\E i \in 1..Len(s1) : s1[i] = ";", sql |-> s1]

\* query_log.log_event: one row appended to the table
Row(raw, cleaned, safe, added, count, error) ==
    [raw_sql |-> raw, cleaned_sql |-> cleaned, safe_sql |-> safe,
     limit_added |-> added, row_count |-> count, error |-> error]

log_event(table, row) == Append(table, row)

\* SETTINGS.rate_limit_max_requests and rate_limit_window_sec of the deployment
ReqConfigs == {<<1, 1>>, <<MaxN, MaxW>>, <<0, 1>>}

InitReq ==
    /\ SafetyIdle
    /\ bareLimitOk \in BOOLEAN
    /\ hits = [k \in Keys |-> <<>>]
    /\ lockHolder = 0
    /\ clock = 0
    /\ \E c \in ReqConfigs : maxRequests = c[1] /\ windowSec = c[2]
    /\ tpc = [t \in Threads |-> "idle"]
    /\ tkey = [t \in Threads |-> "k1"]
    /\ tnow = [t \in Threads |-> 0]
    /\ ret = NoReturn
    /\ ncalls = 0
    /\ run = [k \in Keys |-> NoRun]
    /\ ReqIdle

rateGhost == <<lockHolder, maxRequests, windowSec, tpc, tkey, tnow, ret, ncalls, run>>
validatorVars == <<sqlIn, defaultLimit, bareLimitOk, vpc, res1, res2>>
locals == <<raw_sql, cleaned_sql, safe_sql, limit_added, row_count, error_msg>>

\* the user runs a query (line 616), or a caller calls text_to_sql
StartRequest(e, long, so) ==
    /\ rpc \in {"idle", "done", "crashed"}
    /\ nreq < MaxReq
    /\ nreq' = nreq + 1
    /\ entry' = e
    /\ tooLong' = (e = "ui" /\ long)
    /\ stream_only' = (e = "ui" /\ so)
    /\ rpc' = IF e = "ui" THEN "length" ELSE "svc_generate"
    /\ stream' = <<>> /\ buf' = <<>>
    /\ raw_sql' = <<>> /\ cleaned_sql' = <<>> /\ safe_sql' = <<>>
    /\ limit_added' = FALSE /\ row_count' = NullCount /\ error_msg' = NoError
    /\ audit' = <<>> /\ nlog' = 0 /\ execd' = <<>> /\ vres' = NoResult
    /\ trace' = <<>>
    /\ rows' = <<>>
    /\ UNCHANGED <<hits, clock, rateGhost, validatorVars>>

\* lines 620-636: the question is too long
InputTooLong ==
    /\ rpc = "length"
    /\ tooLong
    /\ audit' = log_event(audit, Row(<<>>, <<>>, <<>>, FALSE, NullCount, "Input too long"))
    /\ nlog' = nlog + 1
    /\ rpc' = "done"
    /\ trace' = Append(trace, "log")
    /\ rows' = rows
    /\ UNCHANGED <<entry, tooLong, stream_only, stream, buf, locals, nreq, execd, vres,
                   hits, clock, rateGhost, validatorVars>>

LengthOk ==
    /\ rpc = "length"
    /\ ~tooLong
    /\ rpc' = "rate"
    /\ trace' = trace
    /\ rows' = rows
    /\ UNCHANGED <<entry, tooLong, stream_only, stream, buf, locals, audit, nreq, nlog,
                   execd, vres, hits, clock, rateGhost, validatorVars>>

\* check_rate_limit as one call of this request
check_rate_limit(k) ==
    IF Degenerate THEN [allowed |-> TRUE, retry_after |-> 0, hits |-> hits[k]]
    ELSE CheckBody(hits[k], clock, maxRequests, windowSec)

\* mutant of RateLimited: the denial is logged but the request goes on
RateLimited_continues(k) ==
    /\ rpc = "rate"
    /\ ~check_rate_limit(k).allowed
    /\ hits' = [hits EXCEPT ![k] = check_rate_limit(k).hits]
    /\ audit' = log_event(audit, Row(<<>>, <<>>, <<>>, FALSE, NullCount,
                                     "Rate limit exceeded"))
    /\ nlog' = nlog + 1
    /\ rpc' = "try"
    /\ trace' = trace \o <<"rate_denied", "log">>
    /\ rows' = rows
    /\ UNCHANGED <<entry, tooLong, stream_only, stream, buf, locals, nreq, execd, vres,
                   clock, rateGhost, validatorVars>>

\* lines 639-662: the client key is over its limit
RateLimited(k) ==
    /\ rpc = "rate"
    /\ ~check_rate_limit(k).allowed
    /\ hits' = [hits EXCEPT ![k] = check_rate_limit(k).hits]
    /\ audit' = log_event(audit, Row(<<>>, <<>>, <<>>, FALSE, NullCount,
                                     "Rate limit exceeded"))
    /\ nlog' = nlog + 1
    /\ rpc' = "done"
    /\ trace' = trace \o <<"rate_denied", "log">>
    /\ rows' = rows
    /\ UNCHANGED <<entry, tooLong, stream_only, stream, buf, locals, nreq, execd, vres,
                   clock, rateGhost, validatorVars>>

\* lines 639-673: admitted; the try block is entered
Admitted(k) ==
    /\ rpc = "rate"
    /\ check_rate_limit(k).allowed
    /\ hits' = [hits EXCEPT ![k] = check_rate_limit(k).hits]
    /\ rpc' = "try"
    /\ trace' = Append(trace, "rate_ok")
    /\ rows' = rows
    /\ UNCHANGED <<entry, tooLong, stream_only, stream, buf, locals, audit, nreq, nlog,
                   execd, vres, clock, rateGhost, validatorVars>>

\* lines 680-684: stream mode, the backend's stream is opened
StreamStart ==
    /\ rpc = "try"
    /\ stream_only
    /\ stream' \in StreamChoices
    /\ buf' = <<>>
    /\ rpc' = "stream"
    /\ trace' = Append(trace, "generate")
    /\ rows' = rows
    /\ UNCHANGED <<entry, tooLong, stream_only, locals, audit, nreq, nlog, execd, vres,
                   hits, clock, rateGhost, validatorVars>>

\* lines 684-686: one chunk arrives
StreamChunk ==
    /\ rpc = "stream"
    /\ stream # <<>>
    /\ buf' = buf \o Head(stream)
    /\ stream' = Tail(stream)
    /\ trace' = trace
    /\ rows' = rows
    /\ UNCHANGED <<rpc, entry, tooLong, stream_only, locals, audit, nreq, nlog, execd,
                   vres, hits, clock, rateGhost, validatorVars>>

\* the backend fails instead of yielding the next chunk: except Exception (783-785)
StreamFail ==
    /\ rpc = "stream"
    /\ stream # <<>>
    /\ error_msg' = "backend error"
    /\ rpc' = "finally"
    /\ trace' = trace
    /\ rows' = rows
    /\ UNCHANGED <<entry, tooLong, stream_only, stream, buf, raw_sql, cleaned_sql,
                   safe_sql, limit_added, row_count, audit, nreq, nlog, execd, vres,
                   hits, clock, rateGhost, validatorVars>>

\* the user stops or reruns the script while chunks are shown: a script-control
\* exception (a BaseException) unwinds through the finally block
StreamInterrupt ==
    /\ rpc = "stream"
    /\ stream # <<>>
    /\ rpc' = "finally"
    /\ trace' = trace
    /\ rows' = rows
    /\ UNCHANGED <<entry, tooLong, stream_only, stream, buf, locals, audit, nreq, nlog,
                   execd, vres, hits, clock, rateGhost, validatorVars>>

\* lines 688-703: the stream is over; log_event, then st.stop(), whose
\* script-control exception leaves the try block through finally
StreamEnd ==
    /\ rpc = "stream"
    /\ stream = <<>>
    /\ audit' = log_event(audit, Row(buf, extract_sql_candidate(buf), <<>>, FALSE,
                                     NullCount, NoError))
    /\ nlog' = nlog + 1
    /\ rpc' = "finally"
    /\ trace' = Append(trace, "log")
    /\ rows' = rows
    /\ UNCHANGED <<entry, tooLong, stream_only, stream, buf, locals, nreq, execd, vres,
                   hits, clock, rateGhost, validatorVars>>

\* lines 706-707: provider.generate_sql returns
Generate ==
    /\ rpc = "try"
    /\ ~stream_only
    /\ raw_sql' \in GenTexts
    /\ rpc' = "validate"
    /\ trace' = Append(trace, "generate")
    /\ rows' = rows
    /\ UNCHANGED <<entry, tooLong, stream_only, stream, buf, cleaned_sql, safe_sql,
                   limit_added, row_count, error_msg, audit, nreq, nlog, execd, vres,
                   hits, clock, rateGhost, validatorVars>>

\* lines 676-707 raise (schema lookup, backend): except Exception (783-785)
GenerateFail ==
    /\ rpc = "try"
    /\ ~stream_only
    /\ error_msg' = "generation error"
    /\ rpc' = "finally"
    /\ trace' = Append(trace, "generate")
    /\ rows' = rows
    /\ UNCHANGED <<entry, tooLong, stream_only, stream, buf, raw_sql, cleaned_sql,
                   safe_sql, limit_added, row_count, audit, nreq, nlog, execd, vres,
                   hits, clock, rateGhost, validatorVars>>

\* lines 709-712: the generated text passes the validator
ValidateOk ==
    /\ rpc = "validate"
    /\ LET safe == validate_and_rewrite_select(raw_sql, 100, bareLimitOk)
       IN  /\ safe.ok
           /\ cleaned_sql' = extract_sql_candidate(raw_sql)
           /\ safe_sql' = safe.sql
           /\ limit_added' = safe.limit_added
           /\ vres' = safe
    /\ rpc' = "execute"
    /\ trace' = Append(trace, "validate")
    /\ rows' = rows
    /\ UNCHANGED <<entry, tooLong, stream_only, stream, buf, raw_sql, row_count,
                   error_msg, audit, nreq, nlog, execd, hits, clock, rateGhost,
                   validatorVars>>

\* mutant of SafetyBlocked: the extraction is not kept when the validator raises
SafetyBlocked_noCleaned ==
    /\ rpc = "validate"
    /\ LET safe == validate_and_rewrite_select(raw_sql, 100, bareLimitOk)
       IN  /\ ~safe.ok
           /\ cleaned_sql' = <<>>
           /\ error_msg' = "Blocked by safety gate"
           /\ vres' = safe
    /\ rpc' = "finally"
    /\ trace' = Append(trace, "validate")
    /\ rows' = rows
    /\ UNCHANGED <<entry, tooLong, stream_only, stream, buf, raw_sql, safe_sql,
                   limit_added, row_count, audit, nreq, nlog, execd, hits, clock,
                   rateGhost, validatorVars>>

\* lines 709-710 and 779-781: the validator raises SQLSafetyError
SafetyBlocked ==
    /\ rpc = "validate"
    /\ LET safe == validate_and_rewrite_select(raw_sql, 100, bareLimitOk)
       IN  /\ ~safe.ok
           /\ cleaned_sql' = extract_sql_candidate(raw_sql)
           /\ error_msg' = "Blocked by safety gate"
           /\ vres' = safe
    /\ rpc' = "finally"
    /\ trace' = Append(trace, "validate")
    /\ rows' = rows
    /\ UNCHANGED <<entry, tooLong, stream_only, stream, buf, raw_sql, safe_sql,
                   limit_added, row_count, audit, nreq, nlog, execd, hits, clock,
                   rateGhost, validatorVars>>

\* mutant of ExecuteOk: the cleaned text is executed instead of the safe one
ExecuteOk_cleaned(n) ==
    /\ rpc = "execute"
    /\ _prepare_for_execute(cleaned_sql).ok
    /\ execd' = Append(execd, _prepare_for_execute(cleaned_sql).sql)
    /\ rows' = run_query(_prepare_for_execute(cleaned_sql).sql, n)
    /\ row_count' = Len(run_query(_prepare_for_execute(cleaned_sql).sql, n))
    /\ rpc' = "finally"
    /\ trace' = Append(trace, "execute")
    /\ UNCHANGED <<entry, tooLong, stream_only, stream, buf, raw_sql, cleaned_sql,
                   safe_sql, limit_added, error_msg, audit, nreq, nlog, vres, hits,
                   clock, rateGhost, validatorVars>>

\* lines 734-737: the safe SQL is executed and returns n rows
ExecuteOk(n) ==
    /\ rpc = "execute"
    /\ _prepare_for_execute(safe_sql).ok
    /\ execd' = Append(execd, _prepare_for_execute(safe_sql).sql)
    /\ rows' = run_query(_prepare_for_execute(safe_sql).sql, n)
    /\ row_count' = Len(run_query(_prepare_for_execute(safe_sql).sql, n))
    /\ rpc' = "finally"
    /\ trace' = Append(trace, "execute")
    /\ UNCHANGED <<entry, tooLong, stream_only, stream, buf, raw_sql, cleaned_sql,
                   safe_sql, limit_added, error_msg, audit, nreq, nlog, vres, hits,
                   clock, rateGhost, validatorVars>>

\* lines 734-735 raise (_prepare_for_execute's ValueError, or run_query):
\* except Exception (783-785)
ExecuteFail ==
    /\ rpc = "execute"
    /\ LET p == _prepare_for_execute(safe_sql)
       IN  /\ execd' = IF p.ok THEN Append(execd, p.sql) ELSE execd
           /\ error_msg' = IF p.ok THEN "execution error"
                           ELSE "Multiple statements detected"
    /\ rpc' = "finally"
    /\ trace' = IF _prepare_for_execute(safe_sql).ok THEN Append(trace, "execute") ELSE trace
    /\ rows' = rows
    /\ UNCHANGED <<entry, tooLong, stream_only, stream, buf, raw_sql, cleaned_sql,
                   safe_sql, limit_added, row_count, audit, nreq, nlog, vres, hits,
                   clock, rateGhost, validatorVars>>

\* lines 796-813: the finally block
Finally ==
    /\ rpc = "finally"
    /\ audit' = log_event(audit, Row(raw_sql, cleaned_sql, safe_sql, limit_added,
                                     row_count, error_msg))
    /\ nlog' = nlog + 1
    /\ rpc' = "done"
    /\ trace' = Append(trace, "log")
    /\ rows' = rows
    /\ UNCHANGED <<entry, tooLong, stream_only, stream, buf, locals, nreq, execd, vres,
                   hits, clock, rateGhost, validatorVars>>

\* service.py lines 32-37: text_to_sql generates and extracts
SvcGenerate ==
    /\ rpc = "svc_generate"
    /\ \E text \in GenTexts :
          /\ raw_sql' = text
          /\ cleaned_sql' = extract_sql_candidate(text)
    /\ rpc' = "svc_validate"
    /\ trace' = Append(trace, "generate")
    /\ rows' = rows
    /\ UNCHANGED <<entry, tooLong, stream_only, stream, buf, safe_sql, limit_added,
                   row_count, error_msg, audit, nreq, nlog, execd, vres, hits, clock,
                   rateGhost, validatorVars>>

\* service.py lines 39-40: validation passes (dialect and default_limit defaulted)
SvcValidateOk ==
    /\ rpc = "svc_validate"
    /\ LET safe == validate_and_rewrite_select(raw_sql, 100, bareLimitOk)
       IN  /\ safe.ok
           /\ safe_sql' = safe.sql
           /\ limit_added' = safe.limit_added
           /\ vres' = safe
    /\ rpc' = "svc_execute"
    /\ trace' = Append(trace, "validate")
    /\ rows' = rows
    /\ UNCHANGED <<entry, tooLong, stream_only, stream, buf, raw_sql, cleaned_sql,
                   row_count, error_msg, audit, nreq, nlog, execd, hits, clock,
                   rateGhost, validatorVars>>

\* service.py lines 41-42: QueryValidationError is raised to the caller
SvcRejected ==
    /\ rpc = "svc_validate"
    /\ LET safe == validate_and_rewrite_select(raw_sql, 100, bareLimitOk)
       IN  /\ ~safe.ok
           /\ error_msg' = safe.err
           /\ vres' = safe
    /\ rpc' = "done"
    /\ trace' = Append(trace, "validate")
    /\ rows' = rows
    /\ UNCHANGED <<entry, tooLong, stream_only, stream, buf, raw_sql, cleaned_sql,
                   safe_sql, limit_added, row_count, audit, nreq, nlog, execd, hits,
                   clock, rateGhost, validatorVars>>

\* service.py lines 44-53: run_query(SETTINGS.db_path, safe.sql), then the response
SvcExecuteOk(n) ==
    /\ rpc = "svc_execute"
    /\ execd' = Append(execd, safe_sql)
    /\ rows' = run_query(safe_sql, n)
    /\ row_count' = Len(run_query(safe_sql, n))
    /\ rpc' = "done"
    /\ trace' = Append(trace, "execute")
    /\ UNCHANGED <<entry, tooLong, stream_only, stream, buf, raw_sql, cleaned_sql,
                   safe_sql, limit_added, error_msg, audit, nreq, nlog, vres, hits,
                   clock, rateGhost, validatorVars>>

\* service.py line 44: run_query raises to the caller
SvcExecuteFail ==
    /\ rpc = "svc_execute"
    /\ execd' = Append(execd, safe_sql)
    /\ error_msg' = "execution error"
    /\ rpc' = "done"
    /\ trace' = Append(trace, "execute")
    /\ rows' = rows
    /\ UNCHANGED <<entry, tooLong, stream_only, stream, buf, raw_sql, cleaned_sql,
                   safe_sql, limit_added, row_count, audit, nreq, nlog, vres, hits,
                   clock, rateGhost, validatorVars>>

\* log_event raises (the log database cannot be written) at lines 622-635:
\* nothing catches it and the script run ends with the exception
InputTooLongLogFails ==
    /\ rpc = "length"
    /\ tooLong
    /\ rpc' = "crashed"
    /\ trace' = Append(trace, "log_failed")
    /\ rows' = rows
    /\ UNCHANGED <<entry, tooLong, stream_only, stream, buf, locals, audit, nreq, nlog,
                   execd, vres, hits, clock, rateGhost, validatorVars>>

\* log_event raises at lines 648-661, after the denial
RateLimitedLogFails(k) ==
    /\ rpc = "rate"
    /\ ~check_rate_limit(k).allowed
    /\ hits' = [hits EXCEPT ![k] = check_rate_limit(k).hits]
    /\ rpc' = "crashed"
    /\ trace' = trace \o <<"rate_denied", "log_failed">>
    /\ rows' = rows
    /\ UNCHANGED <<entry, tooLong, stream_only, stream, buf, locals, audit, nreq, nlog,
                   execd, vres, clock, rateGhost, validatorVars>>

\* log_event raises at lines 689-702, inside the try block: except Exception
\* (783-785) takes it
StreamEndLogFails ==
    /\ rpc = "stream"
    /\ stream = <<>>
    /\ error_msg' = "log error"
    /\ rpc' = "finally"
    /\ trace' = Append(trace, "log_failed")
    /\ rows' = rows
    /\ UNCHANGED <<entry, tooLong, stream_only, stream, buf, raw_sql, cleaned_sql,
                   safe_sql, limit_added, row_count, audit, nreq, nlog, execd, vres,
                   hits, clock, rateGhost, validatorVars>>

\* log_event raises in the finally block (lines 800-813): the exception leaves
\* the block and ends the script run
FinallyLogFails ==
    /\ rpc = "finally"
    /\ rpc' = "crashed"
    /\ trace' = Append(trace, "log_failed")
    /\ rows' = rows
    /\ UNCHANGED <<entry, tooLong, stream_only, stream, buf, locals, audit, nreq, nlog,
                   execd, vres, hits, clock, rateGhost, validatorVars>>

Next ==
    \/ \E e \in {"ui", "service"}, long \in BOOLEAN, so \in BOOLEAN : StartRequest(e, long, so)
    \/ InputTooLong
    \/ LengthOk
    \/ \E k \in Keys : RateLimited(k)
    \/ \E k \in Keys : Admitted(k)
    \/ StreamStart
    \/ StreamChunk
    \/ StreamFail
    \/ StreamInterrupt
    \/ StreamEnd
    \/ Generate
    \/ GenerateFail
    \/ ValidateOk
    \/ SafetyBlocked
    \/ \E n \in RowCounts : ExecuteOk(n)
    \/ ExecuteFail
    \/ Finally
    \/ InputTooLongLogFails
    \/ \E k \in Keys : RateLimitedLogFails(k)
    \/ StreamEndLogFails
    \/ FinallyLogFails
    \/ SvcGenerate
    \/ SvcValidateOk
    \/ SvcRejected
    \/ \E n \in RowCounts : SvcExecuteOk(n)
    \/ SvcExecuteFail
    \/ Tick

Spec == InitReq /\ [][Next]_vars

(***************************************************************************)
(* Vocabulary of the claims about the validator                            *)
(***************************************************************************)
Validated == vpc \in {"validated", "revalidated"}

\* the input as a statement: surrounding whitespace and trailing semicolons off
StatementOf(text) == DropSemis(Strip(text))

HasInteriorSemicolon(text) ==
    \E i \in 1..Len(StatementOf(text)) : StatementOf(text)[i] = ";"

\* the one parsed statement of a text that is a single statement, else NoTree
SingleTree(text) ==
    LET p == Parse(StatementOf(text), bareLimitOk)
    IN  IF ~p.raised /\ Len(p.statements) = 1 THEN p.statements[1] ELSE NoTree

IsWriteStatement(text) ==
    SingleTree(text).kind \in {"insert", "update", "delete", "drop", "alter", "create"}

IsReadOnlyStatement(text) == SingleTree(text).kind \in {"select", "union"}

SqlTokens(text) == Tokenize(StatementOf(text), 1, <<>>).toks

\* the statement's tokens end with LIMIT n, or LIMIT n OFFSET m
EndsWithBound(text) ==
    LET tk == SqlTokens(text)
        n == Len(tk)
    IN  \/ n >= 2 /\ tk[n - 1] = "LIMIT" /\ IsDigits(tk[n])
        \/ n >= 4 /\ tk[n - 3] = "LIMIT" /\ IsDigits(tk[n - 2])
                  /\ tk[n - 1] = "OFFSET" /\ IsDigits(tk[n])

\* no LIMIT keyword among the statement's tokens, at any nesting depth
HasNoBound(text) == \A i \in 1..Len(SqlTokens(text)) : SqlTokens(text)[i] # "LIMIT"

\* C1: an input that still holds a ';' once surrounding whitespace and trailing
\* semicolons are stripped is rejected (SQLSafetyError, no SafeSQLResult).
C1_MultiStatementRejected ==
    (Validated /\ HasInteriorSemicolon(sqlIn)) => ~res1.ok

\* C2: an input whose statement is an INSERT, UPDATE, DELETE, DROP, ALTER or
\* CREATE is rejected with the not-read-only error, whatever else it contains.
C2_WriteStatementRejected ==
    (Validated /\ IsWriteStatement(sqlIn)) =>
        (~res1.ok /\ res1.err = "Only SELECT queries are allowed.")

\* C5: whenever the validator returns, the returned sql (terminating ';' aside)
\* ends with LIMIT <number>, optionally followed by OFFSET <number>.
C5_ResultEndsWithBound ==
    (Validated /\ res1.ok) => EndsWithBound(res1.sql)

\* C6: a valid read-only statement with no bound clause comes back as the
\* statement, then ' LIMIT D', then ';', with limit_added = true.
C6_LimitAppended ==
    (Validated /\ IsReadOnlyStatement(sqlIn) /\ HasNoBound(sqlIn)) =>
        /\ res1.ok
        /\ res1.limit_added
        /\ res1.sql = StatementOf(sqlIn)
                        \o <<" ", "LIMIT", " ", NumeralOf(defaultLimit), ";">>

\* C7: a valid read-only statement that ends with an explicit bound clause comes
\* back unchanged apart from the terminating semicolon, with limit_added = false.
C7_ExplicitLimitKept ==
    (Validated /\ IsReadOnlyStatement(sqlIn) /\ EndsWithBound(sqlIn)) =>
        /\ res1.ok
        /\ ~res1.limit_added
        /\ res1.sql = Append(RStrip(StatementOf(sqlIn)), ";")

\* C8: limit enforcement is idempotent: validating the returned sql again
\* returns the same sql with limit_added = false.
C8_Idempotent ==
    (vpc = "revalidated") => (res2.ok /\ res2.sql = res1.sql /\ ~res2.limit_added)

C8_Witness ==
    /\ vpc = "revalidated"
    /\ res1.limit_added
    /\ res2.ok /\ res2.sql = res1.sql /\ ~res2.limit_added

(***************************************************************************)
(* Claims about the rate limiter                                           *)
(***************************************************************************)
RECURSIVE MinOf(_)
MinOf(h) == IF Len(h) = 1 THEN h[1] ELSE Min2(h[1], MinOf(Tail(h)))

\* the call that returned last went through the window check
Checked == ret.nth >= 1

\* C9: from an empty state, calls for one key issued within one window are
\* admitted up to the max_requests-th, and the next one is denied with
\* retry_after > 0.
C9_AdmitsNThenDenies ==
    (Checked /\ ret.hi - ret.lo < windowSec) =>
        /\ ret.nth <= maxRequests => (ret.allowed /\ ret.retry_after = 0)
        /\ ret.nth = maxRequests + 1 => (~ret.allowed /\ ret.retry_after > 0)

C9_Witness ==
    /\ Checked
    /\ maxRequests >= 2
    /\ ret.hi - ret.lo < windowSec
    /\ ret.nth = maxRequests + 1
    /\ ~ret.allowed
    /\ ret.retry_after > 0

\* C10: after a denial, a call for the key made once the window has elapsed
\* past the oldest stored timestamp is admitted.
C10_AdmittedAfterWindow ==
    (Checked /\ ret.after_denial /\ ret.before # <<>>
        /\ ret.now - MinOf(ret.before) > windowSec) => ret.allowed

C10_Witness ==
    /\ Checked
    /\ ret.after_denial
    /\ Len(ret.before) = maxRequests
    /\ ret.now - MinOf(ret.before) > windowSec
    /\ ret.allowed

\* the timestamps of h that are not expired at the reading now
Unexpired(h, now) == SelectSeq(h, LAMBDA x : x >= now - windowSec)

\* C11: a denied check_rate_limit call records no new timestamp: when a call
\* returns denied, the key's stored list is its list before the call minus the
\* expired entries, so a denied call never delays the next admission.
C11_DenialRecordsNothing ==
    [][(ret' # ret /\ ~ret'.allowed) =>
          /\ hits'[ret'.key] = Unexpired(hits[ret'.key], ret'.now)
          /\ Len(hits'[ret'.key]) <= Len(hits[ret'.key])
          /\ \A k \in Keys \ {ret'.key} : hits'[k] = hits[k]]_vars

\* a call was denied right after another denial for the key, and the stored
\* list is still the one the call found
C11_Witness ==
    /\ Checked
    /\ ~ret.allowed
    /\ ret.after_denial
    /\ hits[ret.key] = ret.before
    /\ Len(ret.before) = maxRequests

\* the calls admitted for key k with a clock reading in a..(a + windowSec - 1)
RECURSIVE AdmittedIn(_, _, _)
AdmittedIn(k, a, len) ==
    IF len <= 0 \/ a > MaxTime THEN 0
    ELSE run[k].adm[a] + AdmittedIn(k, a + 1, len - 1)

\* C12: under every interleaving of concurrent calls for one key with N > 0 and
\* W > 0, there is never a set of more than N admitted calls whose recorded
\* timestamps all lie within one interval shorter than W.
C12_NoExcessAdmission ==
    ~Degenerate =>
        \A k \in Keys, a \in 0..MaxTime : AdmittedIn(k, a, windowSec) <= maxRequests

\* C18: with max_requests <= 0 or window_sec <= 0, check_rate_limit returns
\* (allowed = true, retry_after = 0) for every key and every prior history, and
\* leaves the stored rate-limit state unchanged. A step in which a call starts
\* and no thread moves to the lock is the early return of lines 16-17.
C18_DegenerateAlwaysAllows ==
    [][(ncalls' # ncalls /\ tpc' = tpc) =>
          /\ ret'.allowed
          /\ ret'.retry_after = 0
          /\ hits' = hits]_vars

\* a degenerate call returned for a key whose list was full, and left it so
C18_Witness ==
    /\ ret.nth = 0
    /\ ret.allowed /\ ret.retry_after = 0
    /\ ~Degenerate
    /\ Len(ret.before) = maxRequests
    /\ hits[ret.key] = ret.before

(***************************************************************************)
(* Claims about the request pipeline (specification Spec)                  *)
(***************************************************************************)
\* C3: every top-level request results in exactly one audit-log append (one
\* log_event call): never two while it runs, and exactly one once it is over.
\* Stated for the requests of the UI, the only entry point that logs at all.
C3_ExactlyOneLogRecord ==
    entry = "ui" => /\ nlog <= 1
                    /\ rpc = "done" => nlog = 1

\* a text without its terminating semicolon
WithoutTerminator(t) == IF t # <<>> /\ Last(t) = ";" THEN Front(t) ELSE t

\* C4: run_query is invoked only after validate_and_rewrite_select has returned
\* a SafeSQLResult for the request's generated text, what it executes is that
\* result's sql less the terminating semicolon, and when validation raises
\* nothing is executed in the request.
C4_ExecutesOnlyValidatedSql ==
    /\ execd # <<>> =>
          /\ vres = validate_and_rewrite_select(raw_sql, 100, bareLimitOk)
          /\ vres.ok
          /\ Len(execd) = 1
          /\ WithoutTerminator(execd[1]) = WithoutTerminator(vres.sql)
    /\ (vres # NoResult /\ ~vres.ok) => execd = <<>>

\* a UI request has executed SQL to which the validator added a LIMIT
C4_Witness ==
    /\ entry = "ui"
    /\ rpc = "done"
    /\ execd # <<>>
    /\ vres.ok /\ vres.limit_added
    /\ row_count # NullCount

\* the calls of the pipeline proper: generation, validation, execution
Work == {"generate", "validate", "execute"}
Occurs(e) == \E i \in 1..Len(trace) : trace[i] = e
DidWork == \E i \in 1..Len(trace) : trace[i] \in Work

StreamCompleted ==
    /\ entry = "ui" /\ stream_only
    /\ Occurs("generate")
    /\ stream = <<>>
    /\ rpc = "done"

\* C14: in stream mode a request never validates or executes SQL, and after the
\* stream completes the audit record written for the request has raw_sql and
\* cleaned_sql holding the concatenation of all chunks received, safe_sql empty,
\* limit_added false and row_count null.
C14_StreamModeRecord ==
    (entry = "ui" /\ stream_only) =>
        /\ ~Occurs("validate") /\ ~Occurs("execute")
        /\ vres = NoResult /\ execd = <<>>
        /\ StreamCompleted =>
              \A i \in 1..Len(audit) :
                  audit[i] = Row(buf, buf, <<>>, FALSE, NullCount, NoError)

\* C15: a failure of the audit-log append (log_event) is not propagated to the
\* pipeline caller: no request ends with the exception log_event raised.
C15_LogFailureContained == rpc # "crashed"

\* a UI request outside stream mode has ended and its record is written
Logged == entry = "ui" /\ ~stream_only /\ rpc = "done" /\ audit # <<>>

\* C16: the audit record of a failed request reflects how far the pipeline got:
\* after a safety rejection it has the error, raw_sql and cleaned_sql equal to
\* the generated text and its extraction, safe_sql empty and row_count null;
\* after an execution failure it has the error, the three SQL stages populated
\* and row_count null.
C16_FailureRecord ==
    Logged =>
        /\ (Occurs("validate") /\ ~vres.ok) =>
              audit = <<Row(raw_sql, extract_sql_candidate(raw_sql), <<>>, FALSE,
                            NullCount, "Blocked by safety gate")>>
        /\ (Occurs("execute") /\ row_count = NullCount) =>
              /\ audit = <<Row(raw_sql, extract_sql_candidate(raw_sql), vres.sql,
                              vres.limit_added, NullCount, "execution error")>>
              /\ raw_sql # <<>>
              /\ extract_sql_candidate(raw_sql) # <<>>
              /\ vres.sql # <<>>

\* a write statement was rejected and the rejection is on record with the
\* generated text
C16_Witness ==
    /\ Logged
    /\ Occurs("validate") /\ ~vres.ok
    /\ audit[1].raw_sql # <<>>
    /\ audit[1].cleaned_sql # <<>>
    /\ audit[1].error # NoError

CountSemicolons(t) == Cardinality({i \in 1..Len(t) : t[i] = ";"})

\* C17: whenever validate_and_rewrite_select returns, the returned sql ends with
\* exactly one ';' and holds no other ';', so _prepare_for_execute never
\* rejects a validated statement for an interior semicolon.
C17_OneTerminator ==
    (Validated /\ res1.ok) =>
        /\ res1.sql # <<>>
        /\ Last(res1.sql) = ";"
        /\ CountSemicolons(res1.sql) = 1
        /\ _prepare_for_execute(res1.sql).ok
        /\ _prepare_for_execute(res1.sql).sql = Front(res1.sql)

\* an input with several semicolons was accepted after a LIMIT was appended
C17_Witness ==
    /\ Validated
    /\ res1.ok /\ res1.limit_added
    /\ CountSemicolons(sqlIn) >= 2
    /\ CountSemicolons(res1.sql) = 1

\* the names of the rows run_query returned to the current request
Names == [i \in 1..Len(rows) |-> rows[i].NAME]
ScenarioARan == entry = "ui" /\ raw_sql = ScenarioA /\ Occurs("execute") /\ rows # <<>>

\* C19: when the backend returns SELECT * FROM STUDENT WHERE CLASS = '10' AND
\* MARKS > 80 and the query is run on the seeded table, the safe SQL is that
\* text followed by LIMIT 100, limit_added is true, and the rows returned are
\* exactly the two rows of Rifa and Nabil.
C19_ScenarioA ==
    ScenarioARan =>
        /\ WithoutTerminator(safe_sql) = ScenarioA \o <<" ", "LIMIT", " ", "100">>
        /\ limit_added
        /\ Names = <<"Rifa", "Nabil">>

\* the text that follows the first semicolon of t
AfterFirstSemicolon(t) ==
    IF FirstIndex(t, Semicolon) = 0 THEN <<>>
    ELSE SubSeq(t, FirstIndex(t, Semicolon) + 1, Len(t))
EndsWith(t, u) == Len(u) <= Len(t) /\ SubSeq(t, Len(t) - Len(u) + 1, Len(t)) = u
Unfenced(t) == \A i \in 1..Len(t) : t[i] # Fence

\* C20: extract_sql_candidate does not truncate at a semicolon: whatever text
\* follows the first ';' of an unfenced input is still there, at the end of the
\* extracted candidate.
C20_NoSemicolonTruncation ==
    (Validated /\ Unfenced(sqlIn) /\ Strip(AfterFirstSemicolon(sqlIn)) # <<>>) =>
        EndsWith(extract_sql_candidate(sqlIn), Strip(AfterFirstSemicolon(sqlIn)))

\* the statement ends with the keyword LIMIT and no operand
HasDanglingLimit(text) == EndsWithBareLimit(StatementOf(text))

\* the statement less its dangling LIMIT
WithoutDanglingLimit(text) ==
    RStrip(SubSeq(StatementOf(text), 1, Len(StatementOf(text)) - 1))

CountLimits(text) == Cardinality({i \in 1..Len(text) : Upper(text[i]) = "LIMIT"})

TruncatedReadOnly(text) ==
    /\ Unfenced(text) /\ ~HasInteriorSemicolon(text)
    /\ HasDanglingLimit(text)
    /\ IsReadOnlyStatement(WithoutDanglingLimit(text))

\* C21: a read-only statement that ends with the keyword LIMIT and no number is
\* not rejected: the result's sql ends with LIMIT default_limit, which stands
\* in the place of the dangling keyword (no second LIMIT clause is added), and
\* limit_added is true.
C21_DanglingLimitRepaired ==
    (Validated /\ TruncatedReadOnly(sqlIn)) =>
        /\ res1.ok
        /\ res1.limit_added
        /\ EndsWithBound(res1.sql)
        /\ Last(SqlTokens(res1.sql)) = NumeralOf(defaultLimit)
        /\ CountLimits(res1.sql) = CountLimits(sqlIn)

\* C22: a denied check_rate_limit call reports retry_after = window_sec -
\* (now - t_oldest), where t_oldest is the oldest of the key's timestamps that
\* survive the prune at the call's clock reading, and the value is never
\* negative; an admitted call reports 0.
C22_RetryAfterFromOldest ==
    Checked =>
        /\ ret.allowed => ret.retry_after = 0
        /\ ~ret.allowed =>
              /\ ret.retry_after >= 0
              /\ ret.retry_after =
                    windowSec - (ret.now - MinOf(Unexpired(ret.before, ret.now)))

Nondecreasing(h) == \A i \in 1..(Len(h) - 1) : h[i] <= h[i + 1]

\* C23: under every interleaving of concurrent check_rate_limit calls, each
\* key's stored list of timestamps is in nondecreasing order, so that its first
\* element is its oldest timestamp.
C23_StoredListOrdered ==
    \A k \in Keys : Nondecreasing(hits[k]) /\ (hits[k] # <<>> => hits[k][1] = MinOf(hits[k]))

\* the stream of the current stream-mode request was left before its end, by an
\* error of the backend or by the caller, and the request is over
StreamStopped ==
    /\ entry = "ui" /\ stream_only
    /\ Occurs("generate")
    /\ stream # <<>>
    /\ rpc = "done"

\* C24: when the consumption of the stream stops before its end, the audit
\* record of the request has as raw_sql the concatenation of the chunks
\* received until then.
C24_PartialStreamLogged ==
    StreamStopped => (audit # <<>> /\ \A i \in 1..Len(audit) : audit[i].raw_sql = buf)

Returns(t) == tpc[t] = "body" /\ tpc'[t] = "idle"

\* C26: when a check_rate_limit call with a non-degenerate configuration
\* returns, admitted or denied, every timestamp stored for its key is at least
\* the call's clock reading minus window_sec, and the lists of the other keys
\* are as they were.
C26_StoredWithinWindow ==
    [][\A t \in Threads : Returns(t) =>
          /\ \A i \in 1..Len(hits'[tkey[t]]) : hits'[tkey[t]][i] >= tnow[t] - windowSec
          /\ \A k \in Keys \ {tkey[t]} : hits'[k] = hits[k]]_vars

\* a call has just dropped an expired timestamp of its key, while the other
\* key still holds a timestamp that is expired at the same clock reading
C26_Witness ==
    /\ Checked
    /\ \E i \in 1..Len(ret.before) : ret.before[i] < ret.now - windowSec
    /\ hits[ret.key] = CheckBody(ret.before, ret.now, maxRequests, windowSec).hits
    /\ \A i \in 1..Len(hits[ret.key]) : hits[ret.key][i] >= ret.now - windowSec
    /\ \E k \in Keys \ {ret.key} :
          \E i \in 1..Len(hits[k]) : hits[k][i] < ret.now - windowSec

====
